---------------------------- MODULE Spec2Model ----------------------------
(***************************************************************************)
(* TalkMateAI server: the per-connection voice pipeline of                 *)
(* routes/websocket_routes.py (websocket_endpoint with its three tasks     *)
(* listener, brain, send_keepalive), the ConnectionManager registry of     *)
(* managers/connection_manager.py, WhisperProcessor.transcribe_audio and   *)
(* OllamaProcessor.get_response.                                           *)
(*                                                                         *)
(* One TLA+ step is one run of a coroutine between two suspension points   *)
(* of the asyncio event loop (an await that really yields).  Python        *)
(* dictionaries keyed by client id are functions whose domain is the set   *)
(* of the dictionary's keys.                                               *)
(***************************************************************************)
EXTENDS Integers, Sequences, FiniteSets, TLC

\* ------------------------------------------------------------------ bounds
\* Inbound text frames of a run, and keepalive pings sent per connection,
\* with one connection.
MaxIn == 2
MaxPings == 1
\* Inbound text frames of a run with two connections, or with a second
\* caller of cancel_current_tasks.
MaxInTwo == 1
\* Inbound text frames of a run with two connections that stay open.
MaxInShared == 2

\* --------------------------------------------------------------- constants
Conns == {1, 2}
Ids == {"x", "y"}
Units == {"listener", "brain", "keepalive"}

\* cid of a connection whose handler has not started
NoId == "<none>"
\* Python's None as a transcription result
PyNone == "<None>"
\* None in a task slot; a task in a slot is named by its connection
NoTask == 0
NoUnit == <<0, "none">>

FALLBACK == "I'm having trouble thinking right now."
SAMPLE_RATE == 24000
\* MIN_ENERGY_THRESHOLD = 0.005, LANGUAGE gate 0.88: in thousandths.
MIN_ENERGY_THRESHOLD == 5
LANGUAGE_GATE == 880

VARIABLES
    \* ConnectionManager (one per process)
    active_connections, current_tasks, client_state, audio_segments_received,
    \* OllamaProcessor (one per process)
    history,
    \* per connection: the path id, whether the peer is still there
    cid, open,
    \* per connection: the handler's position and its drain loop
    hpc, pend, hcur,
    \* per connection: the three tasks' positions, the cancellations requested
    lpc, bpc, kpc, creq,
    \* per connection: text_queue and the coroutines' local variables
    text_queue, message, audio_data, transcribed_text, lerr, text, reply_text,
    audio,
    \* per connection: frames put on the wire, by kind
    sent,
    \* a second caller of cancel_current_tasks: its position, the task awaited
    xpc, xcur,
    \* the lifespan's shutdown: its position, the ids left of its snapshot, the
    \* id and the connection being closed, the errors it logged
    spc, skeys, scur, swho, slogged,
    \* history variables of the run (not program state)
    nin, pushed, npop, ndone, replied, busyPings

regvars == <<active_connections, current_tasks, client_state, audio_segments_received>>
connvars == <<cid, open>>
hvars == <<hpc, pend, hcur>>
lvars == <<message, audio_data, transcribed_text, lerr>>
bvars == <<text, reply_text, audio>>
svars == <<spc, skeys, scur, swho, slogged>>
xvars == <<xpc, xcur, svars>>
ghost == <<nin, pushed, npop, ndone, replied, busyPings>>
vars == <<regvars, history, connvars, hvars, lpc, bpc, kpc, creq, text_queue,
          lvars, bvars, sent, xvars, ghost>>

\* ------------------------------------------------------------------ tasks
Finished == {"done", "failed", "cancelled"}

UnitPc(c, u) ==
    CASE u = "listener" -> lpc[c]
      [] u = "brain" -> bpc[c]
      [] u = "keepalive" -> kpc[c]

\* asyncio.Task.done()
TaskDone(c, u) == UnitPc(c, u) \in Finished

\* A unit that has been created and has not finished.
Running(c, u) == UnitPc(c, u) \notin Finished \cup {"none"}

\* A unit may take a step of its own code only while no cancellation is
\* pending for it: after Task.cancel() its next step raises CancelledError.
Live(c, u) == Running(c, u) /\ u \notin creq[c]

\* Task.cancel(): no effect on a finished task.
CancelSet(c, us) == creq[c] \cup {u \in us : ~TaskDone(c, u)}

\* ------------------------------------------------------- dictionaries
\* d[k] = v
DictSet(d, k, v) == [j \in (DOMAIN d) \cup {k} |-> IF j = k THEN v ELSE d[j]]
\* if k in d: del d[k]
DictDel(d, k) == [j \in (DOMAIN d) \ {k} |-> d[j]]
EmptyDict == [j \in {} |-> NoTask]
EmptySlots == [processing |-> NoTask, tts |-> NoTask]

\* ------------------------------------------------- WhisperProcessor
\* An audio segment, by what transcribe_audio reads of it: whether its
\* byte length is odd (np.frombuffer of int16 raises), its RMS in
\* thousandths, whether the engine raises, the detected language's
\* probability in thousandths, and the stripped join of the segments that
\* pass the per-segment gates.
Audio(odd, rms, raises, lang, out) ==
    [odd |-> odd, rms |-> rms, raises |-> raises, lang |-> lang, out |-> out]
NoAudio == Audio(FALSE, 0, FALSE, 0, "")
Audios ==
    { Audio(TRUE, 100, FALSE, 990, "hello"),
      Audio(FALSE, 3, FALSE, 990, "hello"),
      Audio(FALSE, 100, TRUE, 990, "hello"),
      Audio(FALSE, 100, FALSE, 500, "hello"),
      Audio(FALSE, 100, FALSE, 990, ""),
      Audio(FALSE, 100, FALSE, 990, "hello"),
      Audio(FALSE, 100, FALSE, 990, "bye"),
      Audio(FALSE, 100, FALSE, 990, "NOISE_DETECTED") }

\* _run_transcription: the language gate, then the joined text.
run_transcription(a) == IF a.lang < LANGUAGE_GATE THEN "" ELSE a.out

transcribe_audio(a) ==
    IF a.odd THEN PyNone
    ELSE IF a.rms < MIN_ENERGY_THRESHOLD THEN "NO_SPEECH"
    ELSE IF a.raises THEN PyNone
    ELSE IF run_transcription(a) = "" THEN "NO_SPEECH"
    ELSE run_transcription(a)

\* ---------------------------------------------------- OllamaProcessor
SYSTEM_PROMPT == "You are AlmostHuman"
Entry(role, content) == [role |-> role, content |-> content]

\* What client.chat yields: it raises, or a response whose "message" may be
\* missing or not a dict and whose "content" may be missing, None or text.
ChatResponses ==
    { [raises |-> TRUE, message |-> "dict", content |-> ""],
      [raises |-> FALSE, message |-> "missing", content |-> ""],
      [raises |-> FALSE, message |-> "notdict", content |-> "Sure."],
      [raises |-> FALSE, message |-> "dict", content |-> PyNone],
      [raises |-> FALSE, message |-> "dict", content |-> "  "],
      [raises |-> FALSE, message |-> "dict", content |-> " Sure. "] }

\* str.strip on the contents above
Strip(s) ==
    CASE s = "  " -> ""
      [] s = " Sure. " -> "Sure."
      [] OTHER -> s

\* (mutant) a get_response without the fallback for an empty content.
ChatContentNoFallback(r) ==
    LET raw == IF r.message = "dict" THEN r.content ELSE ""
    IN Strip(IF raw = PyNone THEN "" ELSE raw)

\* get_response after the await: the content kept for the reply.
ChatContent(r) ==
    LET raw == IF r.message = "dict" THEN r.content ELSE ""
        content == Strip(IF raw = PyNone THEN "" ELSE raw)
    IN IF content = "" THEN FALLBACK ELSE content

ReplyOf(r) == IF r.raises THEN FALLBACK ELSE ChatContent(r)

\* --------------------------------------------------- KokoroTTSProcessor
\* synthesize_initial_speech_with_timing: it raises, or yields audio that
\* is None, empty or a non-empty array of samples.
SynthResults ==
    { [raises |-> TRUE, none |-> FALSE, samples |-> <<>>],
      [raises |-> FALSE, none |-> TRUE, samples |-> <<>>],
      [raises |-> FALSE, none |-> FALSE, samples |-> <<>>],
      [raises |-> FALSE, none |-> FALSE, samples |-> <<1, 0>>] }

\* (mutant) a test that forgets the length: audio is not None
HasAudioNotNone(r) == ~r.none

\* audio is not None and len(audio) > 0
HasAudio(r) == ~r.none /\ Len(r.samples) > 0

\* ------------------------------------------------------ client frames
\* An inbound text frame, by what the listener reads of it: the JSON value's
\* kind, whether "audio_segment" is in it (a key of an object, an element of
\* an array, a substring of a string), whether the field decodes as base64,
\* and the audio it decodes to.
Frame(json, has, b64, seg) == [json |-> json, has |-> has, b64 |-> b64, audio |-> seg]
Messages ==
    { Frame("malformed", FALSE, FALSE, NoAudio),
      Frame("scalar", FALSE, FALSE, NoAudio),
      Frame("array", FALSE, FALSE, NoAudio),
      Frame("array", TRUE, FALSE, NoAudio),
      Frame("string", FALSE, FALSE, NoAudio),
      Frame("string", TRUE, FALSE, NoAudio),
      Frame("object", FALSE, FALSE, NoAudio),
      Frame("object", TRUE, FALSE, NoAudio) }
    \cup { Frame("object", TRUE, TRUE, a) : a \in Audios }

\* The frames whose audio is transcribed to "hello".
SpeechFrames == {m \in Messages : m.b64 /\ transcribe_audio(m.audio) = "hello"}

\* What the body of the listener's inner try does with a frame up to its
\* first await: "error" with the error frame's text, "ignore", or
\* "transcribe".
Decode(m) ==
    IF m.json = "malformed" THEN [do |-> "error", err |-> "Invalid JSON format"]
    ELSE IF m.json = "scalar" THEN [do |-> "error", err |-> "Processing error"]
    ELSE IF ~m.has THEN [do |-> "ignore", err |-> ""]
    ELSE IF m.json # "object" THEN [do |-> "error", err |-> "Processing error"]
    ELSE IF ~m.b64 THEN [do |-> "error", err |-> "Processing error"]
    ELSE [do |-> "transcribe", err |-> ""]

\* (mutant) a filter that forgets the failure result None.
DiscardedSentinelsOnly(t) == t \in {"NOISE_DETECTED", "NO_SPEECH"}

\* transcribed_text in ["NOISE_DETECTED", "NO_SPEECH", None]
Discarded(t) == t \in {"NOISE_DETECTED", "NO_SPEECH", PyNone}

\* The listener's message while no frame is being handled (the variable is
\* unbound or dead).
NoMessage == "<unbound>"

\* ------------------------------------------------------------------- Init
NoFrames == [connected |-> 0, ping |-> 0, bad_json |-> 0, bad_frame |-> 0, reply |-> 0]

Init ==
    /\ active_connections = EmptyDict
    /\ current_tasks = EmptyDict
    /\ client_state = EmptyDict
    /\ audio_segments_received = 0
    /\ history = <<Entry("system", SYSTEM_PROMPT)>>
    /\ cid = [c \in Conns |-> NoId]
    /\ open = [c \in Conns |-> FALSE]
    /\ hpc = [c \in Conns |-> "start"]
    /\ pend = [c \in Conns |-> {}]
    /\ hcur = [c \in Conns |-> NoUnit]
    /\ lpc = [c \in Conns |-> "none"]
    /\ bpc = [c \in Conns |-> "none"]
    /\ kpc = [c \in Conns |-> "none"]
    /\ creq = [c \in Conns |-> {}]
    /\ text_queue = [c \in Conns |-> <<>>]
    /\ message = [c \in Conns |-> NoMessage]
    /\ audio_data = [c \in Conns |-> NoAudio]
    /\ transcribed_text = [c \in Conns |-> ""]
    /\ lerr = [c \in Conns |-> ""]
    /\ text = [c \in Conns |-> ""]
    /\ reply_text = [c \in Conns |-> ""]
    /\ audio = [c \in Conns |-> <<>>]
    /\ sent = [c \in Conns |-> NoFrames]
    /\ nin = 0
    /\ pushed = [c \in Conns |-> <<>>]
    /\ npop = [c \in Conns |-> 0]
    /\ ndone = [c \in Conns |-> 0]
    /\ replied = [c \in Conns |-> <<>>]
    /\ busyPings = [c \in Conns |-> 0]
    /\ xpc = "idle"
    /\ xcur = NoTask
    /\ spc = "running"
    /\ skeys = {}
    /\ scur = NoId
    /\ swho = NoTask
    /\ slogged = 0

\* ------------------------------------------------------------ the client
\* The peer goes away (or the connection breaks): from now on every send
\* and every receive on the connection raises.
ClientClose(c) ==
    /\ hpc[c] \notin {"start", "closed"}
    /\ open[c]
    /\ open' = [open EXCEPT ![c] = FALSE]
    /\ UNCHANGED <<regvars, history, cid, hvars, lpc, bpc, kpc, creq, text_queue,
                   lvars, bvars, sent, xvars, ghost>>

\* ------------------------------------------------------------- keepalive
\* (mutant) a keepalive that gets no turn while the brain is inside a model
\* or synthesis call (a call that blocks the event loop).
KeepaliveRunsWhenIdle(c) == Live(c, "keepalive") /\ bpc[c] \notin {"llm", "tts"}

\* send_keepalive is a task of its own: it is resumed whenever its await is
\* over, whatever the listener and the brain are suspended in.
KeepaliveRuns(c) == Live(c, "keepalive")

\* (mutant) a keepalive that logs a failed send and tries again later.
KeepaliveSendFailedRetries == "sleep"

\* Where the keepalive goes when its send_text raises: "except Exception:
\* break" leaves the loop and the task returns.
KeepaliveSendFailed == "done"

\* send_keepalive resumed at its send_text: the ping goes out and the task
\* sleeps, or the send raises and the loop breaks.
KeepaliveSend(c, maxPings) ==
    /\ KeepaliveRuns(c)
    /\ kpc[c] = "send"
    /\ IF open[c]
       THEN /\ sent[c].ping < maxPings
            /\ sent' = [sent EXCEPT ![c].ping = @ + 1]
            /\ busyPings' = [busyPings EXCEPT ![c] =
                               IF bpc[c] \in {"llm", "tts"} THEN @ + 1 ELSE @]
            /\ kpc' = [kpc EXCEPT ![c] = "sleep"]
       ELSE /\ kpc' = [kpc EXCEPT ![c] = KeepaliveSendFailed]
            /\ UNCHANGED <<sent, busyPings>>
    /\ UNCHANGED <<regvars, history, connvars, hvars, lpc, bpc, creq, text_queue,
                   lvars, bvars, xvars, nin, pushed, npop, ndone, replied>>

\* asyncio.sleep(10) elapses.
KeepaliveWake(c) ==
    /\ KeepaliveRuns(c)
    /\ kpc[c] = "sleep"
    /\ kpc' = [kpc EXCEPT ![c] = "send"]
    /\ UNCHANGED <<regvars, history, connvars, hvars, lpc, bpc, creq, text_queue,
                   lvars, bvars, sent, xvars, ghost>>

\* -------------------------------------------------------------- listener
\* How a task ends when an await on the broken connection raises inside a
\* try that catches only WebSocketDisconnect: it returns, or the error
\* (RuntimeError, ...) ends the task.
ListenerEnds == {"done", "failed"}

\* receive_text returns a frame; the listener runs to its next await.
ListenerReceive(c, maxIn, msgs) ==
    /\ Live(c, "listener")
    /\ lpc[c] = "recv"
    /\ open[c]
    /\ nin < maxIn
    /\ nin' = nin + 1
    /\ \E m \in msgs :
         LET d == Decode(m) IN
         /\ lpc' = [lpc EXCEPT ![c] =
                      CASE d.do = "error" -> "errsend"
                        [] d.do = "ignore" -> "recv"
                        [] d.do = "transcribe" -> "stt"]
         /\ lerr' = [lerr EXCEPT ![c] = IF d.do = "error" THEN d.err ELSE @]
         /\ message' = [message EXCEPT ![c] =
                          IF d.do = "ignore" \/ m.json = "malformed"
                          THEN NoMessage ELSE m.json]
         /\ audio_data' = [audio_data EXCEPT ![c] =
                             IF d.do = "transcribe" THEN m.audio ELSE @]
    /\ UNCHANGED <<regvars, history, connvars, hvars, bpc, kpc, creq, text_queue,
                   transcribed_text, bvars, sent, xvars, pushed, npop, ndone, replied,
                   busyPings>>

\* receive_text raises on the broken connection.
ListenerReceiveFails(c) ==
    /\ Live(c, "listener")
    /\ lpc[c] = "recv"
    /\ ~open[c]
    /\ \E e \in ListenerEnds : lpc' = [lpc EXCEPT ![c] = e]
    /\ UNCHANGED <<regvars, history, connvars, hvars, bpc, kpc, creq, text_queue,
                   lvars, bvars, sent, xvars, ghost>>

\* transcribe_audio returns: a discarded result goes back to receive_text,
\* any other text is put on the queue.  (message and audio_data are dead
\* from here on and are forgotten.)
ListenerTranscribed(c) ==
    /\ Live(c, "listener")
    /\ lpc[c] = "stt"
    /\ LET t == transcribe_audio(audio_data[c]) IN
         /\ transcribed_text' = [transcribed_text EXCEPT ![c] = t]
         /\ IF Discarded(t)
            THEN UNCHANGED <<text_queue, pushed>>
            ELSE /\ text_queue' = [text_queue EXCEPT ![c] = Append(@, t)]
                 /\ pushed' = [pushed EXCEPT ![c] = Append(@, t)]
    /\ lpc' = [lpc EXCEPT ![c] = "recv"]
    /\ audio_data' = [audio_data EXCEPT ![c] = NoAudio]
    /\ message' = [message EXCEPT ![c] = NoMessage]
    /\ UNCHANGED <<regvars, history, connvars, hvars, bpc, kpc, creq,
                   lerr, bvars, sent, xvars, nin, npop, ndone, replied, busyPings>>

\* (mutant) an except clause that leaves the loop: the listener returns.
AfterErrorFrameReturn == "done"

\* Where the listener goes after the send_text of an except clause: the
\* clause ends inside the while loop, which goes on to receive_text.
AfterErrorFrame == "recv"

\* The send_text of an except clause returns (the message and the error
\* text are dead from here on and are forgotten) or raises.
ListenerErrorSent(c) ==
    /\ Live(c, "listener")
    /\ lpc[c] = "errsend"
    /\ IF open[c]
       THEN /\ sent' = [sent EXCEPT ![c] =
                          IF lerr[c] = "Invalid JSON format"
                          THEN [@ EXCEPT !.bad_json = @ + 1]
                          ELSE [@ EXCEPT !.bad_frame = @ + 1]]
            /\ lpc' = [lpc EXCEPT ![c] = AfterErrorFrame]
            /\ lerr' = [lerr EXCEPT ![c] = ""]
            /\ message' = [message EXCEPT ![c] = NoMessage]
            /\ UNCHANGED <<audio_data, transcribed_text>>
       ELSE /\ \E e \in ListenerEnds : lpc' = [lpc EXCEPT ![c] = e]
            /\ UNCHANGED <<sent, lvars>>
    /\ UNCHANGED <<regvars, history, connvars, hvars, bpc, kpc, creq, text_queue,
                   bvars, xvars, ghost>>

\* ----------------------------------------------------------------- brain
\* (mutant) a queue that hands out its newest item.
QueueBack(q) == q[Len(q)]

\* asyncio.Queue.get on a non-empty queue: the oldest item.
QueueFront(q) == Head(q)

\* (mutant) a brain that takes the next item while a call is in flight.
BrainAwaitsQueueOrCall(c) == bpc[c] \in {"pop", "llm", "tts"}

\* The brain is suspended in text_queue.get().
BrainAwaitsQueue(c) == bpc[c] = "pop"

\* (mutant) a get_response that starts every call from a history of its own.
PromptedFresh(h, t) == <<Entry("system", SYSTEM_PROMPT), Entry("user", t)>>

\* self.history.append({"role": "user", "content": prompt}) on the history h
\* of the one OllamaProcessor instance; the result is what client.chat gets
\* as messages.
Prompted(h, t) == Append(h, Entry("user", t))

\* text_queue.get() returns: THINKING, then get_response up to its await
\* of client.chat (an empty prompt returns "" at once).
BrainPop(c) ==
    /\ Live(c, "brain")
    /\ BrainAwaitsQueue(c)
    /\ text_queue[c] # <<>>
    /\ LET t == QueueFront(text_queue[c]) IN
         /\ text' = [text EXCEPT ![c] = t]
         /\ IF t = ""
            THEN /\ reply_text' = [reply_text EXCEPT ![c] = ""]
                 /\ bpc' = [bpc EXCEPT ![c] = "tts"]
                 /\ UNCHANGED history
            ELSE /\ history' = Prompted(history, t)
                 /\ bpc' = [bpc EXCEPT ![c] = "llm"]
                 /\ UNCHANGED reply_text
    /\ text_queue' = [text_queue EXCEPT ![c] = Tail(@)]
    /\ client_state' = DictSet(client_state, cid[c], "THINKING")
    /\ npop' = [npop EXCEPT ![c] = @ + 1]
    /\ UNCHANGED <<active_connections, current_tasks, audio_segments_received,
                   connvars, hvars, lpc, kpc, creq, lvars, audio, sent, xvars, nin,
                   pushed, ndone, replied, busyPings>>

\* client.chat returns or raises: get_response appends the assistant entry
\* and returns; the brain calls the synthesis with the reply.
BrainAnswer(c) ==
    /\ Live(c, "brain")
    /\ bpc[c] = "llm"
    /\ \E r \in ChatResponses :
         /\ history' = Append(history, Entry("assistant", ReplyOf(r)))
         /\ reply_text' = [reply_text EXCEPT ![c] = ReplyOf(r)]
    /\ bpc' = [bpc EXCEPT ![c] = "tts"]
    /\ UNCHANGED <<regvars, connvars, hvars, lpc, kpc, creq, text_queue, lvars,
                   text, audio, sent, xvars, ghost>>

\* End of the loop body: task_done, WAITING_FOR_PLAYBACK, back to get().
BrainLoopEnd(c) ==
    /\ ndone' = [ndone EXCEPT ![c] = @ + 1]
    /\ client_state' = DictSet(client_state, cid[c], "WAITING_FOR_PLAYBACK")
    /\ bpc' = [bpc EXCEPT ![c] = "pop"]

\* The synthesis returns or raises.  With audio: SPEAKING and the await of
\* send_text of the frame built from it; without: the end of the loop body
\* (the audio is dead and is not kept); raised: the except clause logs and
\* the task returns.
BrainSynthesized(c) ==
    /\ Live(c, "brain")
    /\ bpc[c] = "tts"
    /\ \E r \in SynthResults :
         IF r.raises
         THEN /\ bpc' = [bpc EXCEPT ![c] = "done"]
              /\ UNCHANGED <<client_state, ndone, audio>>
         ELSE IF HasAudio(r)
         THEN /\ client_state' = DictSet(client_state, cid[c], "SPEAKING")
              /\ bpc' = [bpc EXCEPT ![c] = "send"]
              /\ audio' = [audio EXCEPT ![c] = r.samples]
              /\ UNCHANGED ndone
         ELSE /\ BrainLoopEnd(c)
              /\ UNCHANGED audio
    /\ UNCHANGED <<active_connections, current_tasks, audio_segments_received,
                   history, connvars, hvars, lpc, kpc, creq, text_queue, lvars,
                   text, reply_text, sent, xvars, nin, pushed, npop, replied,
                   busyPings>>

\* send_text of the reply frame returns (then the end of the loop body) or
\* raises (both WebSocketDisconnect and any other Exception are caught and
\* the task returns).
BrainSent(c) ==
    /\ Live(c, "brain")
    /\ bpc[c] = "send"
    /\ IF open[c]
       THEN /\ sent' = [sent EXCEPT ![c].reply = @ + 1]
            /\ replied' = [replied EXCEPT ![c] =
                             Append(@, [utt |-> npop[c], text |-> text[c],
                                        audio |-> audio[c],
                                        sample_rate |-> SAMPLE_RATE,
                                        modality |-> "audio_only"])]
            /\ audio' = [audio EXCEPT ![c] = <<>>]
            /\ BrainLoopEnd(c)
       ELSE /\ bpc' = [bpc EXCEPT ![c] = "done"]
            /\ UNCHANGED <<sent, replied, client_state, ndone, audio>>
    /\ UNCHANGED <<active_connections, current_tasks, audio_segments_received,
                   history, connvars, hvars, lpc, kpc, creq, text_queue, lvars,
                   text, reply_text, xvars, nin, pushed, npop, busyPings>>

\* ---------------------------------------------------------- cancellation
\* (mutant) CancelledError as an Exception: the listener's generic except
\* clause catches the one raised at its await of transcribe_audio and
\* answers with an error frame instead of ending.
CancelledOrCaught(c, u) ==
    /\ Running(c, u)
    /\ u \in creq[c]
    /\ creq' = [creq EXCEPT ![c] = @ \ {u}]
    /\ lpc' = IF u = "listener"
              THEN [lpc EXCEPT ![c] = IF @ = "stt" THEN "errsend" ELSE "cancelled"]
              ELSE lpc
    /\ lerr' = IF u = "listener" /\ lpc[c] = "stt"
               THEN [lerr EXCEPT ![c] = "Processing error"]
               ELSE lerr
    /\ bpc' = IF u = "brain" THEN [bpc EXCEPT ![c] = "cancelled"] ELSE bpc
    /\ kpc' = IF u = "keepalive" THEN [kpc EXCEPT ![c] = "cancelled"] ELSE kpc
    /\ UNCHANGED <<regvars, history, connvars, hvars, text_queue, message,
                   audio_data, transcribed_text, bvars, sent, xvars, ghost>>

\* A task with a cancellation pending is resumed: CancelledError is raised
\* at its await; no except clause of the three coroutines catches it (it is
\* no Exception), so the task ends cancelled.
Cancelled(c, u) ==
    /\ Running(c, u)
    /\ u \in creq[c]
    /\ creq' = [creq EXCEPT ![c] = @ \ {u}]
    /\ lpc' = IF u = "listener" THEN [lpc EXCEPT ![c] = "cancelled"] ELSE lpc
    /\ bpc' = IF u = "brain" THEN [bpc EXCEPT ![c] = "cancelled"] ELSE bpc
    /\ kpc' = IF u = "keepalive" THEN [kpc EXCEPT ![c] = "cancelled"] ELSE kpc
    /\ UNCHANGED <<regvars, history, connvars, hvars, text_queue, lvars, bvars,
                   sent, xvars, ghost>>

\* --------------------------------------------------- ConnectionManager
\* disconnect(client_id), on the registry with current_tasks already ct.
disconnect(ct, id) ==
    /\ active_connections' = DictDel(active_connections, id)
    /\ current_tasks' = DictDel(ct, id)
    /\ client_state' = DictDel(client_state, id)
    /\ UNCHANGED audio_segments_received

\* cancel_current_tasks(client_id) reaches an await: the id has an entry
\* whose processing task is not done.  (No code sets the tts slot.)
CancelWaits(id) ==
    /\ id \in DOMAIN current_tasks
    /\ current_tasks[id].processing # NoTask
    /\ ~TaskDone(current_tasks[id].processing, "brain")

\* cancel_current_tasks(client_id) when it reaches no await: the slots are
\* reset if the id has an entry.
ResetIfPresent(id) ==
    IF id \in DOMAIN current_tasks
    THEN DictSet(current_tasks, id, EmptySlots)
    ELSE current_tasks

\* ------------------------------------------------------------- the handler
\* The finally clause of websocket_endpoint, entered with the cancellation
\* requests cr: cancel_current_tasks either cancels the processing task and
\* awaits it, or returns at once and disconnect follows.
Cleanup(c, cr) ==
    /\ pend' = [pend EXCEPT ![c] = {}]
    /\ IF CancelWaits(cid[c])
       THEN LET p == current_tasks[cid[c]].processing IN
            /\ hpc' = [hpc EXCEPT ![c] = "cc_await"]
            /\ hcur' = [hcur EXCEPT ![c] = <<p, "brain">>]
            /\ creq' = [cr EXCEPT ![p] = @ \cup {"brain"}]
            /\ UNCHANGED regvars
       ELSE /\ hpc' = [hpc EXCEPT ![c] = "closed"]
            /\ hcur' = [hcur EXCEPT ![c] = NoUnit]
            /\ creq' = cr
            /\ disconnect(ResetIfPresent(cid[c]), cid[c])

\* The ids a client may put in the path (the first connection's is "x").
PathIds(c) == IF c = 1 THEN {"x"} ELSE Ids

\* manager.connect: accept, then the three dictionaries get the id's entry;
\* the handler goes on to its await of the first send_text.
Connect(c) ==
    /\ hpc[c] = "start"
    /\ \E id \in PathIds(c) :
         /\ cid' = [cid EXCEPT ![c] = id]
         /\ active_connections' = DictSet(active_connections, id, c)
         /\ current_tasks' = DictSet(current_tasks, id, EmptySlots)
         /\ client_state' = DictSet(client_state, id, "IDLE")
    /\ open' = [open EXCEPT ![c] = TRUE]
    /\ hpc' = [hpc EXCEPT ![c] = "hello"]
    /\ UNCHANGED <<audio_segments_received, history, pend, hcur, lpc, bpc, kpc,
                   creq, text_queue, lvars, bvars, sent, xvars, ghost>>

\* The first send_text returns: the three tasks are created, the brain is
\* recorded in the processing slot (KeyError if the id has no entry any
\* more) and the handler awaits asyncio.wait.  Or the send raises.
Hello(c) ==
    /\ hpc[c] = "hello"
    /\ IF open[c]
       THEN /\ sent' = [sent EXCEPT ![c].connected = 1]
            /\ lpc' = [lpc EXCEPT ![c] = "recv"]
            /\ bpc' = [bpc EXCEPT ![c] = "pop"]
            /\ kpc' = [kpc EXCEPT ![c] = "send"]
            /\ IF cid[c] \in DOMAIN current_tasks
               THEN /\ current_tasks' = DictSet(current_tasks, cid[c],
                                           [processing |-> c, tts |-> NoTask])
                    /\ hpc' = [hpc EXCEPT ![c] = "race"]
                    /\ UNCHANGED <<active_connections, client_state,
                                   audio_segments_received, pend, hcur, creq>>
               ELSE Cleanup(c, creq)
       ELSE /\ Cleanup(c, creq)
            /\ UNCHANGED <<sent, lpc, bpc, kpc>>
    /\ UNCHANGED <<history, connvars, text_queue, lvars, bvars, xvars, ghost>>

\* asyncio.wait returns once a task is done; the loop over pending cancels
\* its first task and awaits it.  (A set has no order: any task is first.)
RaceDone(c) ==
    /\ hpc[c] = "race"
    /\ \E u \in Units : TaskDone(c, u)
    /\ LET pending == {u \in Units : ~TaskDone(c, u)} IN
         IF pending = {}
         THEN Cleanup(c, creq)
         ELSE /\ \E t \in pending :
                   /\ hcur' = [hcur EXCEPT ![c] = <<c, t>>]
                   /\ pend' = [pend EXCEPT ![c] = pending \ {t}]
                   /\ creq' = [creq EXCEPT ![c] = CancelSet(c, {t})]
              /\ hpc' = [hpc EXCEPT ![c] = "drain"]
              /\ UNCHANGED regvars
    /\ UNCHANGED <<history, connvars, lpc, bpc, kpc, text_queue, lvars, bvars,
                   sent, xvars, ghost>>

\* "await task" in the loop over pending returns or raises once the task
\* is done.
DrainAwaited(c) == TaskDone(hcur[c][1], hcur[c][2])

\* The awaited task of the loop over pending is done.  Its CancelledError
\* is swallowed and the loop goes on: the next task is cancelled and
\* awaited, and one that is done already is awaited without a suspension.
\* A task that ended with another exception raises it here: the loop is
\* left for the finally clause.  (At most two tasks are pending, so after
\* the second the loop is over; the loop over done changes no state.)
DrainAwait(c) ==
    /\ hpc[c] = "drain"
    /\ DrainAwaited(c)
    /\ IF UnitPc(hcur[c][1], hcur[c][2]) = "failed" \/ pend[c] = {}
       THEN Cleanup(c, creq)
       ELSE \E t \in pend[c] :
              IF TaskDone(c, t)
              THEN Cleanup(c, creq)
              ELSE /\ hcur' = [hcur EXCEPT ![c] = <<c, t>>]
                   /\ pend' = [pend EXCEPT ![c] = @ \ {t}]
                   /\ creq' = [creq EXCEPT ![c] = CancelSet(c, {t})]
                   /\ UNCHANGED <<hpc, regvars>>
    /\ UNCHANGED <<history, connvars, lpc, bpc, kpc, text_queue, lvars, bvars,
                   sent, xvars, ghost>>

\* (mutant) a cancel_current_tasks that cancels and does not await.
CancelNotAwaited(p) == TRUE

\* "await tasks["processing"]" in cancel_current_tasks returns or raises
\* once the task (the brain of connection p) is done.
CancelAwaited(p) == TaskDone(p, "brain")

\* The processing task awaited inside cancel_current_tasks is done: its
\* CancelledError is swallowed, the slots are reset (an assignment: the
\* entry is created if it is gone) and disconnect follows.  Another
\* exception of the task leaves the finally clause before disconnect.
CleanupAwait(c) ==
    /\ hpc[c] = "cc_await"
    /\ CancelAwaited(hcur[c][1])
    /\ hpc' = [hpc EXCEPT ![c] = "closed"]
    /\ hcur' = [hcur EXCEPT ![c] = NoUnit]
    /\ IF UnitPc(hcur[c][1], hcur[c][2]) = "failed"
       THEN UNCHANGED regvars
       ELSE disconnect(DictSet(current_tasks, cid[c], EmptySlots), cid[c])
    /\ UNCHANGED <<history, connvars, pend, lpc, bpc, kpc, creq, text_queue,
                   lvars, bvars, sent, xvars, ghost>>

\* ------------------------------------------ a second caller of the registry
\* A caller other than the handler (a test, an interruption hook) runs
\*     await manager.cancel_current_tasks(id); await manager.cancel_current_tasks(id)
\* for the id of connection 1 while it is registered.
XCalls == {"idle", "after1"}
XAwait(pc) == IF pc = "idle" THEN "await1" ELSE "await2"
XAfter(pc) == IF pc \in {"idle", "await1"} THEN "after1" ELSE "after2"

\* A call runs to its await of the processing task, or to its end.
XCancelBegin ==
    /\ xpc \in XCalls
    /\ cid[1] \in DOMAIN current_tasks
    /\ IF CancelWaits(cid[1])
       THEN LET p == current_tasks[cid[1]].processing IN
            /\ creq' = [creq EXCEPT ![p] = @ \cup {"brain"}]
            /\ xcur' = p
            /\ xpc' = XAwait(xpc)
            /\ UNCHANGED regvars
       ELSE /\ current_tasks' = ResetIfPresent(cid[1])
            /\ xpc' = XAfter(xpc)
            /\ UNCHANGED <<active_connections, client_state,
                           audio_segments_received, creq, xcur>>
    /\ UNCHANGED <<history, connvars, hvars, lpc, bpc, kpc, text_queue, lvars,
                   bvars, sent, svars, ghost>>

\* The await of a call is over: the slots are reset and the call returns,
\* or the task's exception (other than CancelledError) leaves the call.
XCancelAwait ==
    /\ xpc \in {"await1", "await2"}
    /\ CancelAwaited(xcur)
    /\ IF bpc[xcur] = "failed"
       THEN /\ xpc' = "error"
            /\ UNCHANGED regvars
       ELSE /\ xpc' = XAfter(xpc)
            /\ current_tasks' = DictSet(current_tasks, cid[1], EmptySlots)
            /\ UNCHANGED <<active_connections, client_state, audio_segments_received>>
    /\ UNCHANGED <<history, connvars, hvars, lpc, bpc, kpc, creq, text_queue,
                   lvars, bvars, sent, xcur, svars, ghost>>

\* ------------------------------------------------- the lifespan's shutdown
\* The loop over the snapshot goes on with the ids K on the registry whose
\* connections are ac: an id that is registered no more raises KeyError
\* inside the try and its disconnect changes nothing, so the loop runs on
\* to the close() of an id still registered, or to its end.
ShutdownAdvance(K, ac) ==
    LET live == K \cap DOMAIN ac IN
    IF live = {}
    THEN /\ spc' = "done"
         /\ skeys' = {}
         /\ scur' = NoId
         /\ swho' = NoTask
    ELSE \E id \in live :
           /\ spc' = "closing"
           /\ skeys' = K \ {id}
           /\ scur' = id
           /\ swho' = ac[id]

\* (mutant) a loop whose disconnect is inside the try, after the close.
ShutdownUnregistersIfClosed(raised) == ~raised

\* Whether disconnect(client_id) runs after the close() of an iteration
\* that raised or not: the except clause logs and the loop body goes on.
ShutdownUnregisters(raised) == TRUE

\* The server stops: the snapshot of the registered ids is taken and the
\* first connection's close() is awaited.
ShutdownBegin ==
    /\ spc = "running"
    /\ ShutdownAdvance(DOMAIN active_connections, active_connections)
    /\ UNCHANGED <<regvars, history, connvars, hvars, lpc, bpc, kpc, creq,
                   text_queue, lvars, bvars, sent, xpc, xcur, slogged, ghost>>

\* The close() of a connection returns (from now on its sends and receives
\* raise) or, the connection being broken already, raises and is logged;
\* disconnect follows and the loop goes on.
ShutdownClosed ==
    /\ spc = "closing"
    /\ LET raised == ~open[swho]
           unreg == ShutdownUnregisters(raised)
       IN /\ open' = IF raised THEN open ELSE [open EXCEPT ![swho] = FALSE]
          /\ slogged' = IF raised THEN slogged + 1 ELSE slogged
          /\ IF unreg THEN disconnect(current_tasks, scur) ELSE UNCHANGED regvars
          /\ ShutdownAdvance(skeys, IF unreg THEN DictDel(active_connections, scur)
                                              ELSE active_connections)
    /\ UNCHANGED <<history, cid, hvars, lpc, bpc, kpc, creq, text_queue, lvars,
                   bvars, sent, xpc, xcur, ghost>>

\* ------------------------------------------------------- specifications
\* The steps of the three tasks of connection c and of its client.
Pipeline(c, maxIn, msgs, maxPings) ==
    \/ ClientClose(c)
    \/ KeepaliveSend(c, maxPings)
    \/ KeepaliveWake(c)
    \/ ListenerReceive(c, maxIn, msgs)
    \/ ListenerReceiveFails(c)
    \/ ListenerTranscribed(c)
    \/ ListenerErrorSent(c)
    \/ BrainPop(c)
    \/ BrainAnswer(c)
    \/ BrainSynthesized(c)
    \/ BrainSent(c)
    \/ \E u \in Units : Cancelled(c, u)

\* The steps of the handler of connection c.  (CleanupAwait is apart: with
\* one connection the processing task is done when the finally clause runs.)
Handler(c) ==
    \/ Connect(c)
    \/ Hello(c)
    \/ RaceDone(c)
    \/ DrainAwait(c)

\* One connection.
Next == Handler(1) \/ Pipeline(1, MaxIn, Messages, MaxPings)
Spec == Init /\ [][Next]_vars

\* Two connections, whose ids may be the same.  The clients send speech
\* only and the first ping of a keepalive stays in flight, which leaves out
\* the steps of the listener's except clauses and of the keepalive's sleep.
PipelineTwo(c) ==
    \/ ClientClose(c)
    \/ KeepaliveSend(c, 0)
    \/ ListenerReceive(c, MaxInTwo, SpeechFrames)
    \/ ListenerReceiveFails(c)
    \/ ListenerTranscribed(c)
    \/ BrainPop(c)
    \/ BrainAnswer(c)
    \/ BrainSynthesized(c)
    \/ BrainSent(c)
    \/ \E u \in Units : Cancelled(c, u)

NextTwo == \E c \in Conns : Handler(c) \/ CleanupAwait(c) \/ PipelineTwo(c)
SpecTwo == Init /\ [][NextTwo]_vars

\* Two connections that stay open, each client sending at most one segment
\* of speech; the first ping of a keepalive stays in flight.
PipelineShared(c) ==
    \/ pushed[c] = <<>> /\ ListenerReceive(c, MaxInShared, SpeechFrames)
    \/ ListenerTranscribed(c)
    \/ BrainPop(c)
    \/ BrainAnswer(c)
    \/ BrainSynthesized(c)
    \/ BrainSent(c)
    \/ \E u \in Units : Cancelled(c, u)

NextShared == \E c \in Conns : Handler(c) \/ CleanupAwait(c) \/ PipelineShared(c)
SpecShared == Init /\ [][NextShared]_vars

\* One connection and a second caller of cancel_current_tasks.
NextCancel ==
    \/ Handler(1)
    \/ Pipeline(1, MaxInTwo, Messages, MaxPings)
    \/ XCancelBegin
    \/ XCancelAwait
SpecCancel == Init /\ [][NextCancel]_vars

\* One connection under the event loop's scheduling of the keepalive: a
\* task whose await is over is resumed, and the timer of its sleep elapses.
\* Nothing is assumed of the other tasks: a model call may never return.
SpecLive ==
    /\ Spec
    /\ WF_vars(KeepaliveSend(1, MaxPings))
    /\ WF_vars(KeepaliveWake(1))

\* One connection under the event loop's scheduling: the handler and a
\* cancelled task are resumed when their await is over, the keepalive's
\* timer elapses and its send returns or raises, and a receive on a broken
\* connection raises.  Nothing is assumed of the client (it may send
\* nothing more) nor of the transcription, model and synthesis calls (they
\* may never return).
SpecFair ==
    /\ Spec
    /\ WF_vars(Handler(1))
    /\ WF_vars(\E u \in Units : Cancelled(1, u))
    /\ WF_vars(KeepaliveSend(1, MaxPings))
    /\ WF_vars(KeepaliveWake(1))
    /\ WF_vars(ListenerReceiveFails(1))

\* One connection and the shutdown of the server.
NextShutdown ==
    \/ Handler(1)
    \/ Pipeline(1, MaxInTwo, Messages, MaxPings)
    \/ ShutdownBegin
    \/ ShutdownClosed
SpecShutdown == Init /\ [][NextShutdown]_vars

\* The same under the event loop's scheduling of the shutdown, of the
\* handler and of cancelled tasks.
SpecShutdownFair ==
    /\ SpecShutdown
    /\ WF_vars(ShutdownClosed)
    /\ WF_vars(Handler(1))
    /\ WF_vars(\E u \in Units : Cancelled(1, u))

\* ------------------------------------------------------------------ claims
Busy(c) == bpc[c] \in {"llm", "tts", "send"}

\* C1 (as amended): the brain takes the utterances in push order, the queue
\* holds the pushed utterances not yet taken in push order, and the reply
\* frames belong to a strictly increasing selection of the pushed
\* utterances, each built from its own utterance: at most one reply per
\* utterance, in push order.
FifoReplies ==
    \A c \in Conns :
        /\ npop[c] <= Len(pushed[c])
        /\ text_queue[c] = SubSeq(pushed[c], npop[c] + 1, Len(pushed[c]))
        /\ Busy(c) => npop[c] >= 1 /\ text[c] = pushed[c][npop[c]]
        /\ \A k \in 1..Len(replied[c]) :
              /\ replied[c][k].utt \in 1..Len(pushed[c])
              /\ replied[c][k].text = pushed[c][replied[c][k].utt]
              /\ k > 1 => replied[c][k - 1].utt < replied[c][k].utt

\* Two different utterances were pushed and each got its reply, in order.
FifoRepliesWitness ==
    /\ Len(replied[1]) = 2
    /\ replied[1][1].text = "hello"
    /\ replied[1][2].text = "bye"

\* C1 (as claimed): the k-th reply frame belongs to the k-th pushed
\* utterance, one reply per utterance.
KthReplyForKthUtterance ==
    \A c \in Conns : \A k \in 1..Len(replied[c]) : replied[c][k].utt = k

\* C2: at most one utterance is in flight: the utterances taken from the
\* queue are at most one ahead of those whose loop body is over, the brain
\* waits on the queue only with none in flight, and every reply frame sent
\* belongs to an utterance whose loop body is over.
AtMostOneInFlight ==
    \A c \in Conns :
        /\ npop[c] - ndone[c] \in {0, 1}
        /\ bpc[c] = "pop" => npop[c] = ndone[c]
        /\ Busy(c) => npop[c] = ndone[c] + 1
        /\ sent[c].reply <= ndone[c]

\* The model call of the second utterance, started after the first one's
\* reply frame was sent.
AtMostOneInFlightWitness ==
    /\ bpc[1] = "llm"
    /\ npop[1] = 2
    /\ ndone[1] = 1
    /\ sent[1].reply = 1

\* The results the claim names: the no-speech sentinel, the noise sentinel
\* and the failure of the transcription.
Rejected == {"NO_SPEECH", "NOISE_DETECTED", PyNone}

\* C3: a segment transcribed to a rejected result never enters the queue
\* and causes no frame: no rejected result is ever pushed, queued or
\* replied to, and the listener's step that ends such a transcription
\* leaves the queue and the frames sent as they are.
DiscardCorrect ==
    /\ [](\A c \in Conns :
            /\ \A i \in 1..Len(pushed[c]) : pushed[c][i] \notin Rejected
            /\ \A i \in 1..Len(text_queue[c]) : text_queue[c][i] \notin Rejected
            /\ \A i \in 1..Len(replied[c]) : replied[c][i].text \notin Rejected)
    /\ [][\A c \in Conns :
            (/\ lpc[c] = "stt"
             /\ lpc'[c] # "stt"
             /\ transcribe_audio(audio_data[c]) \in Rejected)
            => /\ text_queue'[c] = text_queue[c]
               /\ pushed'[c] = pushed[c]
               /\ sent'[c] = sent[c]
               /\ replied'[c] = replied[c]]_vars

\* The listener is back at receive_text after a transcription that failed,
\* with nothing queued and nothing sent but the greeting.
DiscardCorrectWitness ==
    /\ lpc[1] = "recv"
    /\ transcribed_text[1] = PyNone
    /\ nin = 1
    /\ pushed[1] = <<>>
    /\ sent[1].reply = 0 /\ sent[1].bad_json = 0 /\ sent[1].bad_frame = 0

\* C4: when a session ends, the registry holds no connection, task-slot or
\* state entry for its id, and the number of registered connections has
\* gone down by exactly one.
TeardownComplete ==
    [][\A c \in Conns :
         (hpc[c] # "closed" /\ hpc'[c] = "closed")
         => /\ cid[c] \notin DOMAIN active_connections'
            /\ cid[c] \notin DOMAIN current_tasks'
            /\ cid[c] \notin DOMAIN client_state'
            /\ Cardinality(DOMAIN active_connections')
                 = Cardinality(DOMAIN active_connections) - 1]_vars

\* C5: when the handler has returned, none of the session's three tasks is
\* still running.
NoOrphanedTask ==
    \A c \in Conns : hpc[c] = "closed" => \A u \in Units : ~Running(c, u)

\* C6: neither of two calls of cancel_current_tasks in a row raises, and
\* when each returns the id's slots are both empty and the task the
\* processing slot held is not running any more.
CancelTwiceIdempotent ==
    /\ [](xpc # "error")
    /\ [][(xpc' \in {"after1", "after2"} /\ xpc' # xpc)
          => /\ cid[1] \in DOMAIN current_tasks'
                  => current_tasks'[cid[1]] = EmptySlots
             /\ xpc \in {"await1", "await2"} => ~Running(xcur, "brain")
             /\ (/\ xpc \in XCalls
                 /\ cid[1] \in DOMAIN current_tasks
                 /\ current_tasks[cid[1]].processing # NoTask)
                  => ~Running(current_tasks[cid[1]].processing, "brain")]_vars

\* The second call has returned; the first one cancelled the brain while
\* the handler was still waiting for its first task to end.
CancelTwiceIdempotentWitness ==
    /\ xpc = "after2"
    /\ hpc[1] = "race"
    /\ bpc[1] = "cancelled"
    /\ current_tasks[cid[1]] = EmptySlots

StateOf(states, id) == IF id \in DOMAIN states THEN states[id] ELSE "<no entry>"

\* C8: the state entry is IDLE on register and then moves only along
\* THINKING (the pop), SPEAKING (audio synthesized), WAITING_FOR_PLAYBACK
\* (with the reply frame sent), THINKING (the next pop) until the entry is
\* removed.
StatePath ==
    [][\A c \in Conns :
         LET a == StateOf(client_state, cid[c])
             b == StateOf(client_state', cid'[c])
         IN a # b =>
              \/ b = "<no entry>"
              \/ a = "<no entry>" /\ b = "IDLE"
              \/ a \in {"IDLE", "WAITING_FOR_PLAYBACK"} /\ b = "THINKING"
                   /\ npop'[c] = npop[c] + 1
              \/ a = "THINKING" /\ b = "SPEAKING"
              \/ a = "SPEAKING" /\ b = "WAITING_FOR_PLAYBACK"
                   /\ sent'[c].reply = sent[c].reply + 1]_vars

\* C9: whenever the brain is past get_response (inside the synthesis call
\* or the send of its result) the reply text is not empty, and the brain
\* leaves the await of the model only for the synthesis call (or by its
\* cancellation).
ReplyNeverEmpty ==
    /\ [](\A c \in Conns : bpc[c] \in {"tts", "send"} => reply_text[c] # "")
    /\ [][\A c \in Conns :
            (bpc[c] = "llm" /\ bpc'[c] \notin {"llm", "cancelled"})
            => bpc'[c] = "tts" /\ reply_text'[c] # ""
               /\ history'[Len(history')] = Entry("assistant", reply_text'[c])]_vars

\* The brain is inside the synthesis call with the fallback text.
ReplyNeverEmptyWitness ==
    /\ bpc[1] = "tts"
    /\ reply_text[1] = FALLBACK

\* C10: a malformed frame ends neither the listener nor the session: the
\* listener at receive_text on an open connection never ends of its own,
\* taking a frame into an except clause queues and sends nothing, and the
\* clause of a malformed frame ends with exactly one more error frame
\* sent, nothing queued and the listener back at receive_text (unless the
\* connection broke or the task was cancelled meanwhile, and then nothing
\* is sent).
MalformedRecovered ==
    [][\A c \in Conns :
         /\ (lpc[c] = "recv" /\ lpc'[c] \in {"done", "failed"}) => ~open[c]
         /\ (lpc[c] = "recv" /\ lpc'[c] = "errsend")
              => text_queue'[c] = text_queue[c] /\ sent'[c] = sent[c]
         /\ (lpc[c] = "errsend" /\ lerr[c] = "Invalid JSON format"
                /\ lpc'[c] # "errsend")
              => /\ text_queue'[c] = text_queue[c]
                 /\ pushed'[c] = pushed[c]
                 /\ \/ /\ lpc'[c] = "recv"
                       /\ sent'[c] = [sent[c] EXCEPT !.bad_json = @ + 1]
                    \/ /\ lpc'[c] = "cancelled"
                       /\ sent'[c] = sent[c]
                    \/ /\ ~open[c]
                       /\ lpc'[c] \in {"done", "failed"}
                       /\ sent'[c] = sent[c]]_vars

\* Two malformed frames in a row were each answered by one error frame and
\* the listener is reading again, the session still running.
MalformedRecoveredWitness ==
    /\ sent[1].bad_json = 2
    /\ sent[1].bad_frame = 0
    /\ lpc[1] = "recv"
    /\ hpc[1] = "race"
    /\ pushed[1] = <<>>

\* get_stats(): the counters and the number of registered connections.
get_stats ==
    [audio_segments_received |-> audio_segments_received,
     active_connections |-> Cardinality(DOMAIN active_connections)]

\* C11: the listener prepares an error frame only for a text that is not
\* well-formed JSON or for an object carrying audio_segment: every other
\* well-formed frame (an object without the field, an array, a string, a
\* number, true, false, null) is ignored without an error frame.
NonAudioIgnored ==
    \A c \in Conns :
        lpc[c] = "errsend"
        => lerr[c] = "Invalid JSON format" \/ message[c] = "object"

\* C12: the counter reported by get_stats goes up by one with each audio
\* segment the listener accepts (decodes and hands to the transcription)
\* and never goes down.
StatsCountSegments ==
    [][/\ get_stats'.audio_segments_received >= get_stats.audio_segments_received
       /\ \A c \in Conns :
            (lpc[c] = "recv" /\ lpc'[c] = "stt")
            => get_stats'.audio_segments_received
                 = get_stats.audio_segments_received + 1]_vars

\* The session of connection 1 is over and its id has no registry entry.
Closed ==
    /\ hpc[1] = "closed"
    /\ cid[1] \notin DOMAIN active_connections
    /\ cid[1] \notin DOMAIN current_tasks
    /\ cid[1] \notin DOMAIN client_state

\* C13: once the client is gone, or once any unit has finished, the
\* session is eventually closed with its registry entry removed; and the
\* handler's wait for a cancelled unit always ends, wherever that unit was
\* suspended.
SessionCloses ==
    /\ (hpc[1] \notin {"start", "closed"} /\ ~open[1]) ~> Closed
    /\ (\E u \in Units : TaskDone(1, u)) ~> Closed
    /\ (hpc[1] = "drain") ~> Closed

\* The client went away while the listener was inside the transcription
\* and the brain inside the model call; both were cancelled there and the
\* session is closed.
SessionClosesWitness ==
    /\ Closed
    /\ ~open[1]
    /\ lpc[1] = "cancelled"
    /\ audio_data[1] # NoAudio
    /\ bpc[1] = "cancelled"
    /\ npop[1] > ndone[1]
    /\ reply_text[1] = ""

\* C14: a keepalive whose send fails returns at once: it sends nothing
\* more, it never ends with an error, and with it done the handler's wait
\* for the first task is over, so that the session is eventually closed.
KeepaliveStopsOnFailure ==
    /\ [][(kpc[1] = "send" /\ ~open[1] /\ kpc'[1] # "send")
           => kpc'[1] \in {"done", "cancelled"} /\ sent'[1] = sent[1]]_vars
    /\ [][kpc[1] = "done"
           => kpc'[1] = "done" /\ sent'[1].ping = sent[1].ping]_vars
    /\ [](kpc[1] # "failed")
    /\ []((kpc[1] = "done" /\ hpc[1] = "race") => ENABLED RaceDone(1))
    /\ (kpc[1] = "done") ~> Closed

\* The keepalive's send failed while the listener was inside the
\* transcription and the brain waited for the queue; the handler cancelled
\* both and the session is closed.
KeepaliveStopsOnFailureWitness ==
    /\ Closed
    /\ kpc[1] = "done"
    /\ lpc[1] = "cancelled"
    /\ audio_data[1] # NoAudio
    /\ bpc[1] = "cancelled"
    /\ npop[1] = ndone[1]

\* C15: a reply frame is sent only with non-empty audio; when the
\* synthesis yields none the brain goes straight back to the queue with no
\* frame sent and the item marked complete; and an item is marked complete
\* once, at the end of its own turn of the loop.
NoAudioNoFrame ==
    /\ [](\A c \in Conns :
            /\ bpc[c] = "send" => audio[c] # <<>>
            /\ \A k \in 1..Len(replied[c]) : replied[c][k].audio # <<>>
            /\ ndone[c] <= npop[c]
            /\ sent[c].reply = Len(replied[c]))
    /\ [][\A c \in Conns :
            /\ (bpc[c] = "tts" /\ bpc'[c] = "pop")
                 => /\ sent'[c] = sent[c]
                    /\ ndone'[c] = ndone[c] + 1
                    /\ text_queue'[c] = text_queue[c]
            /\ sent'[c].reply # sent[c].reply
                 => bpc[c] = "send" /\ sent'[c].reply = sent[c].reply + 1
            /\ ndone'[c] # ndone[c]
                 => /\ ndone'[c] = ndone[c] + 1
                    /\ ndone'[c] = npop[c]
                    /\ bpc[c] \in {"tts", "send"}
                    /\ bpc'[c] = "pop"]_vars

\* The first utterance got no audio and no frame, the second one got its
\* reply frame, and both items were marked complete.
NoAudioNoFrameWitness ==
    /\ ndone[1] = 2
    /\ Len(replied[1]) = 1
    /\ replied[1][1].utt = 2
    /\ sent[1].reply = 1

\* C16: recording the brain in the processing slot of an id that is not
\* registered raises nothing and changes nothing in the registry: the
\* handler goes on to wait for its three tasks.
UnknownIdNoOp ==
    [][\A c \in Conns :
         (/\ hpc[c] = "hello"
          /\ hpc'[c] # "hello"
          /\ open[c]
          /\ cid[c] \notin DOMAIN current_tasks)
         => hpc'[c] = "race" /\ UNCHANGED regvars]_vars

\* The id has no entry in any of the registry's three maps.
Unregistered(id, ac, ct, cs) ==
    id \notin (DOMAIN ac) \cup (DOMAIN ct) \cup (DOMAIN cs)

\* C17: every iteration of the shutdown loop ends with the id
\* unregistered, whether its close() raised or not, and the loop always
\* ends; and every way of the handler into its closed state goes through
\* a teardown that leaves the id unregistered.
CleanupCompletes ==
    /\ [][(spc = "closing" /\ (spc' # "closing" \/ scur' # scur))
          => Unregistered(scur, active_connections', current_tasks',
                          client_state')]_vars
    /\ [][\A c \in Conns :
            (hpc[c] # "closed" /\ hpc'[c] = "closed")
            => Unregistered(cid[c], active_connections', current_tasks',
                            client_state')]_vars
    /\ (spc = "closing") ~> (spc = "done")

\* The close() of the shutdown raised on a connection already broken and
\* was logged; the id is unregistered although its handler is still
\* waiting for its tasks.
CleanupCompletesWitness ==
    /\ spc = "done"
    /\ slogged = 1
    /\ hpc[1] = "race"
    /\ Unregistered(cid[1], active_connections, current_tasks, client_state)

IsUser(e) == e.role = "user"

\* C18: there is one history for all sessions: it holds the utterance of
\* every model call made so far by either session, and the messages a
\* model call gets are that whole history followed by the call's own
\* utterance.
HistoryShared ==
    /\ [](Len(SelectSeq(history, IsUser)) = npop[1] + npop[2])
    /\ [][\A c \in Conns :
            (bpc[c] # "llm" /\ bpc'[c] = "llm")
            => history' = Append(history, Entry("user", text'[c]))]_vars

\* Two sessions with different ids are both inside the model call: the
\* messages of the second call hold the other session's utterance.
HistorySharedWitness ==
    /\ cid[1] = "x"
    /\ cid[2] = "y"
    /\ bpc[1] = "llm"
    /\ bpc[2] = "llm"
    /\ history = <<Entry("system", SYSTEM_PROMPT), Entry("user", "hello"),
                   Entry("user", "hello")>>

\* The registry's connection entry of c's id is c's own.
Owns(c) ==
    /\ cid[c] \in DOMAIN active_connections
    /\ active_connections[cid[c]] = c

\* C19: sessions are isolated, also under one id: a brain is cancelled
\* only by a step of its own handler, the registry entry owned by a
\* session that is waiting for its tasks is removed by no step of another
\* session, and a brain writes the state entry only while the entry of its
\* id is its own session's.
SessionsIsolated ==
    [][\A d \in Conns :
         /\ "brain" \in creq'[d] \ creq[d]
              => hpc'[d] # hpc[d] \/ hcur'[d] # hcur[d]
         /\ (hpc[d] \in {"race", "drain"} /\ hpc'[d] = hpc[d] /\ Owns(d))
              => cid[d] \in DOMAIN active_connections'
         /\ (bpc'[d] # bpc[d] /\ client_state' # client_state)
              => Owns(d)]_vars

\* C20: the registry's three maps have the same keys.
SameKeys ==
    /\ DOMAIN current_tasks = DOMAIN active_connections
    /\ DOMAIN client_state = DOMAIN active_connections

\* The history h is the system prompt followed by complete turns: a user
\* entry, then an assistant entry, and so on.
CompleteTurns(h) ==
    /\ Len(h) % 2 = 1
    /\ h[1] = Entry("system", SYSTEM_PROMPT)
    /\ \A i \in 2..Len(h) :
          h[i].role = IF i % 2 = 0 THEN "user" ELSE "assistant"

\* C21: whenever no brain is inside get_response's await of the model, the
\* history is the system prompt followed only by complete turns, each user
\* entry immediately followed by an assistant entry.
HistoryCompleteTurns ==
    (\A c \in Conns : bpc[c] # "llm") => CompleteTurns(history)

=============================================================================
